---- MODULE Spec2Model ----
(***************************************************************************)
(* nom-derive: the derive macro for enums (src/src/enums.rs).              *)
(*                                                                         *)
(* The macro is a pure function from the syntax tree of an enum            *)
(* declaration to the token stream of an `impl` block holding a `parse`    *)
(* function.  The model keeps the token stream as a structured value (the  *)
(* plan): its mode, the parser of the selector, the ordered match arms and *)
(* the optional default arm.  The generated `parse` functions are modelled *)
(* by what the generated tokens do on an input.                            *)
(***************************************************************************)
EXTENDS Integers, Sequences, FiniteSets, TLC

VARIABLES ast, pc, tokens, input, output

vars == <<ast, pc, tokens, input, output>>

(***************************************************************************)
(* Bounds of the explored inputs.                                          *)
(***************************************************************************)
\* largest number of variants of a declared enum
MaxVariants == 3
\* largest number of bytes handed to a generated fieldless parser
MaxInputLen == 2
\* selector values handed to a generated selector parser are 0..MaxSelector
MaxSelector == 2
\* largest number of fields of a declared struct
MaxFields == 3
\* largest number of attributes on the union or variant whose list is resolved
MaxAttrs == 3

(***************************************************************************)
(* Option / panic values.  A Rust panic aborts the macro: it is a value    *)
(* [tag |-> "Panic", msg |-> m] that every caller passes on unchanged.     *)
(***************************************************************************)
None == [tag |-> "None"]
Some(v) == [tag |-> "Some", val |-> v]
Panic(m) == [tag |-> "Panic", msg |-> m]

\* panic messages of enums.rs
MissingVariantSelector == "The 'Selector' attribute must be used to give the value of selector item"
MissingEnumSelector == "Nom-derive: enums must specify the 'selector' attribute"
MissingRepr == "Nom-derive: fieldless enums must have a 'repr' attribute"
BadRepr == "Cannot parse 'repr' content"
UnsupportedNameValue == "unsupported namevalue type"
UnsupportedLiteral == "unsupported literal type"
UnsupportedMeta == "unsupported meta type"
UnsupportedReprNested == "unsupported nested type for 'repr'"
UnsupportedReprMeta == "unsupported meta type for 'repr'"
UnitFieldsUnsupported == "unit fields are not supported"
UnionsNotSupported == "Unions not supported"
DefaultCaseIndexNotFound == "default case is handled but couldn't find index"
IndexOutOfRange == "index out of bounds"

(***************************************************************************)
(* Attributes (syn::Attribute after parse_meta).                           *)
(*   form  : "NameValue" | "List" | "Word" | "Err" (parse_meta failed)     *)
(*   items : for NameValue the one literal, for List the nested metas      *)
(*   item  : [kind |-> "Str" | "Int" | "Word" | "Meta", val |-> string]    *)
(*           Str/Int are NestedMeta::Literal, Word/Meta are NestedMeta::Meta*)
(***************************************************************************)
Item(k, v) == [kind |-> k, val |-> v]
Attr(id, f, its) == [ident |-> id, form |-> f, items |-> its]

SelectorNV(s) == Attr("Selector", "NameValue", <<Item("Str", s)>>)
SelectorList(s) == Attr("Selector", "List", <<Item("Str", s)>>)
ReprAttr(w) == Attr("repr", "List", <<Item("Word", w)>>)

\* get_selector: the value of the first Selector attribute of the list
RECURSIVE get_selector(_)
get_selector(attrs) ==
    IF attrs = <<>> THEN None
    ELSE LET attr == Head(attrs) IN
         CASE attr.form = "NameValue" /\ attr.ident = "Selector" ->
                  IF attr.items[1].kind = "Str"
                  THEN Some(attr.items[1].val)
                  ELSE Panic(UnsupportedNameValue)
           [] attr.form = "List" /\ attr.ident = "Selector" /\ attr.items # <<>> ->
                  IF attr.items[1].kind = "Str"
                  THEN Some(attr.items[1].val)
                  ELSE IF attr.items[1].kind = "Int"
                       THEN Panic(UnsupportedLiteral)
                       ELSE Panic(UnsupportedMeta)
           [] OTHER -> get_selector(Tail(attrs))

\* get_repr: the first word of the first repr(..) attribute of the list
RECURSIVE get_repr(_)
get_repr(attrs) ==
    IF attrs = <<>> THEN None
    ELSE LET attr == Head(attrs) IN
         CASE attr.form = "List" /\ attr.ident = "repr" /\ attr.items # <<>> ->
                  IF attr.items[1].kind = "Word"
                  THEN Some(attr.items[1].val)
                  ELSE IF attr.items[1].kind = "Meta"
                       THEN Panic(UnsupportedReprNested)
                       ELSE Panic(UnsupportedReprMeta)
           [] OTHER -> get_repr(Tail(attrs))

(***************************************************************************)
(* The enum declaration (syn::DeriveInput with syn::Data::Enum).           *)
(*   ast     : [data |-> "Enum", attrs, variants]                          *)
(*             [data |-> "Struct", attrs, fields, struct_def]              *)
(*             [data |-> "Union", attrs]                                   *)
(*   variant : [ident, attrs, fields, struct_def, discriminant]            *)
(*     fields       "Unit" | "Named" | "Unnamed"        (syn::Fields)      *)
(*     struct_def   what the field stage (parse_fields) yields for the     *)
(*                  fields: [unnamed, parsers], parsers a sequence of      *)
(*                  <<name, parser>> in the order of the stage             *)
(*     discriminant <<>> or <<d>>, the explicit `= d` of the declaration   *)
(***************************************************************************)
Ident(i) == <<"A", "B", "C", "D", "E", "F">>[i]

VariantAttrLists ==
    { <<>>, <<SelectorList("0")>>, <<SelectorList("1")>>, <<SelectorList("_")>> }

FieldShapes ==
    { [fields |-> "Unit", struct_def |-> [unnamed |-> FALSE, parsers |-> <<>>],
       discriminant |-> <<>>],
      [fields |-> "Unit", struct_def |-> [unnamed |-> FALSE, parsers |-> <<>>],
       discriminant |-> <<2>>],
      [fields |-> "Unnamed",
       struct_def |-> [unnamed |-> TRUE, parsers |-> << <<"_0", "be_u32">> >>],
       discriminant |-> <<>>],
      [fields |-> "Named",
       struct_def |-> [unnamed |-> FALSE,
                       parsers |-> << <<"a", "be_u16">>, <<"b", "be_u32">> >>],
       discriminant |-> <<>>] }

EnumAttrLists ==
    { <<>>,
      <<SelectorNV("u8")>>,
      <<ReprAttr("u8")>>,
      <<ReprAttr("u16")>>,
      <<ReprAttr("C")>>,
      <<ReprAttr("u8"), SelectorNV("u8")>> }

Variant(i, attrs, shape) ==
    [ident |-> Ident(i), attrs |-> attrs, fields |-> shape.fields,
     struct_def |-> shape.struct_def, discriminant |-> shape.discriminant]

\* The value of variant i as rustc numbers the enumerators: an explicit
\* discriminant, else one more than the previous variant's, else 0.
RECURSIVE Discriminant(_, _)
Discriminant(variants, i) ==
    IF variants[i].discriminant # <<>> THEN variants[i].discriminant[1]
    ELSE IF i = 1 THEN 0
    ELSE Discriminant(variants, i - 1) + 1

\* rustc rejects an enum in which two variants have the same value (E0081)
DistinctDiscriminants(variants) ==
    \A i, j \in 1..Len(variants) :
        i # j => Discriminant(variants, i) # Discriminant(variants, j)

(***************************************************************************)
(* enums.rs                                                                *)
(***************************************************************************)
\* parse_fields (structs.rs) on the fields of a variant: the parsers of the
\* fields as the field stage hands them over.  A unit variant has none and is
\* refused: "Except if the entire enum is fieldless [..], unit fields are not
\* supported" (lib.rs, Limitations).
parse_fields(variant) ==
    IF variant.fields = "Unit"
    THEN Panic(UnitFieldsUnsupported)
    ELSE Some(variant.struct_def)

\* a variant without Selector taken for the default case
parse_variant_defaulting(variant) ==
    LET selector == get_selector(variant.attrs) IN
    IF selector.tag = "Panic" THEN selector
    ELSE LET struct_def == parse_fields(variant) IN
         IF struct_def.tag = "Panic" THEN struct_def
         ELSE Some([ident |-> variant.ident,
                    selector |-> IF selector.tag = "None" THEN "_" ELSE selector.val,
                    struct_def |-> struct_def.val])

parse_variant(variant) ==
    LET selector == get_selector(variant.attrs) IN
    IF selector.tag = "Panic" THEN selector
    ELSE IF selector.tag = "None" THEN Panic(MissingVariantSelector)
    ELSE LET struct_def == parse_fields(variant) IN
         IF struct_def.tag = "Panic" THEN struct_def
         ELSE Some([ident |-> variant.ident,
                    selector |-> selector.val,
                    struct_def |-> struct_def.val])

\* data_enum.variants.iter().map(parse_variant).collect(): in declaration
\* order, the first panic aborts
RECURSIVE parse_variants(_)
parse_variants(variants) ==
    IF variants = <<>> THEN Some(<<>>)
    ELSE LET def == parse_variant(Head(variants)) IN
         IF def.tag = "Panic" THEN def
         ELSE LET rest == parse_variants(Tail(variants)) IN
              IF rest.tag = "Panic" THEN rest
              ELSE Some(<<def.val>> \o rest.val)

\* the fold started from false
is_input_fieldless_enum_never(a) == FALSE

is_input_fieldless_enum(a) ==
    \A i \in 1..Len(a.variants) : a.variants[i].fields = "Unit"

IntReprs == {"u8", "u16", "u32", "u64", "i8", "i16", "i32", "i64"}

impl_nom_fieldless_enums(a, repr) ==
    IF repr \notin IntReprs THEN Panic(BadRepr)
    ELSE [tag |-> "Tokens",
          mode |-> "fieldless",
          parser |-> <<"be_", repr>>,
          ty |-> repr,
          arms |-> [i \in 1..Len(a.variants) |-> [variant |-> a.variants[i].ident]]]

\* the match arm generated for one parsed variant
variant_code(def) ==
    [pattern |-> def.selector,
     variant |-> def.ident,
     idents |-> [k \in 1..Len(def.struct_def.parsers) |-> def.struct_def.parsers[k][1]],
     parser_tokens |-> [k \in 1..Len(def.struct_def.parsers) |-> def.struct_def.parsers[k][2]],
     struct_def |-> [form |-> IF def.struct_def.unnamed THEN "positional" ELSE "named",
                     idents2 |-> [k \in 1..Len(def.struct_def.parsers) |->
                                     def.struct_def.parsers[k][1]]]]

\* the first entry copied over the second and not the other way round
swap_overwrite(s, i, j) ==
    [k \in 1..Len(s) |-> IF k = j THEN s[i] ELSE s[k]]

\* Vec::swap, 1-based
swap(s, i, j) ==
    [k \in 1..Len(s) |-> IF k = i THEN s[j] ELSE IF k = j THEN s[i] ELSE s[k]]

\* iter().position(|def| def.selector == "_"), 1-based; 0 when there is none
position(defs) ==
    IF \E i \in 1..Len(defs) : defs[i].selector = "_"
    THEN CHOOSE i \in 1..Len(defs) :
             /\ defs[i].selector = "_"
             /\ \A j \in 1..(i - 1) : defs[j].selector # "_"
    ELSE 0

\* the relocation left out: the entries stay where they were declared
relocate_skipped(s, pos, last_index) == s

\* "if we have a default case, make sure it is the last entry"
relocate(s, pos, last_index) ==
    IF pos # last_index THEN swap(s, pos, last_index) ELSE s

\* the terminal arm emitted whatever the variants are
default_case_always(default_case_handled) == TRUE

\* the terminal arm `_ => Err(.. ErrorKind::Switch ..)`: TRUE when it is emitted
default_case(default_case_handled) == ~default_case_handled

impl_nom_enums(a) ==
    LET selector == get_selector(a.attrs) IN
    IF selector.tag = "Panic" THEN selector
    ELSE IF selector.tag = "None"
    THEN IF is_input_fieldless_enum(a)
         THEN LET repr == get_repr(a.attrs) IN
              IF repr.tag = "Panic" THEN repr
              ELSE IF repr.tag = "None" THEN Panic(MissingRepr)
              ELSE impl_nom_fieldless_enums(a, repr.val)
         ELSE Panic(MissingEnumSelector)
    ELSE LET parsed == parse_variants(a.variants) IN
         IF parsed.tag = "Panic" THEN parsed
         ELSE LET variants_defs == parsed.val
                  default_case_handled ==
                      \E i \in 1..Len(variants_defs) : variants_defs[i].selector = "_"
                  variants_code ==
                      [i \in 1..Len(variants_defs) |-> variant_code(variants_defs[i])]
                  pos == position(variants_defs)
                  last_index == Len(variants_defs)
              IN IF default_case_handled /\ pos = 0
                 THEN Panic(DefaultCaseIndexNotFound)
                 ELSE IF default_case_handled /\ Len(variants_defs) = 0
                 THEN Panic(IndexOutOfRange)
                 ELSE
                 [tag |-> "Tokens",
                  mode |-> "selector",
                  selector_type |-> selector.val,
                  variants_defs |-> IF default_case_handled
                                    THEN relocate(variants_defs, pos, last_index)
                                    ELSE variants_defs,
                  arms |-> IF default_case_handled
                           THEN relocate(variants_code, pos, last_index)
                           ELSE variants_code,
                  default_case |-> default_case(default_case_handled)]

\* parse_struct (structs.rs): parse_fields on the fields of the struct
parse_struct(a) == parse_fields(a)

\* the fields' parsers taken back to front
struct_code_reversed(s) ==
    LET n == Len(s.parsers) IN
    [idents |-> [k \in 1..n |-> s.parsers[n + 1 - k][1]],
     parser_tokens |-> [k \in 1..n |-> s.parsers[n + 1 - k][2]],
     struct_def |-> [form |-> IF s.unnamed THEN "positional" ELSE "named",
                     idents2 |-> [k \in 1..n |-> s.parsers[n + 1 - k][1]]]]

\* impl_nom on a struct: the do_parse! steps `ident: parser >>` and the
\* closing constructor, from the parsers of the field stage
struct_code(s) ==
    [idents |-> [k \in 1..Len(s.parsers) |-> s.parsers[k][1]],
     parser_tokens |-> [k \in 1..Len(s.parsers) |-> s.parsers[k][2]],
     struct_def |-> [form |-> IF s.unnamed THEN "positional" ELSE "named",
                     idents2 |-> [k \in 1..Len(s.parsers) |-> s.parsers[k][1]]]]

\* impl_nom (lib.rs): an enum goes to impl_nom_enums, a struct is assembled here
impl_nom(a) ==
    CASE a.data = "Enum" -> impl_nom_enums(a)
      [] a.data = "Union" -> Panic(UnionsNotSupported)
      [] a.data = "Struct" ->
             LET s == parse_struct(a) IN
             IF s.tag = "Panic" THEN s
             ELSE LET code == struct_code(s.val) IN
                  [tag |-> "Tokens",
                   mode |-> "struct",
                   idents |-> code.idents,
                   parser_tokens |-> code.parser_tokens,
                   struct_def |-> code.struct_def]

(***************************************************************************)
(* The generated parsers: what the emitted tokens do.                      *)
(***************************************************************************)
Ok(v) == [tag |-> "Ok", variant |-> v]
Err(k) == [tag |-> "Err", kind |-> k]

Signed(ty) == ty \in {"i8", "i16", "i32", "i64"}

Width(ty) ==
    CASE ty \in {"u8", "i8"} -> 8
      [] ty \in {"u16", "i16"} -> 16
      [] ty \in {"u32", "i32"} -> 32
      [] ty \in {"u64", "i64"} -> 64

\* `e as ty`: the value wrapped to the range of ty
Cast(d, ty) ==
    LET m == 2 ^ Width(ty) IN
    IF Signed(ty) THEN ((d + m \div 2) % m) - m \div 2 ELSE d % m

RECURSIVE BigEndian(_)
BigEndian(bytes) ==
    IF bytes = <<>> THEN 0
    ELSE BigEndian(SubSeq(bytes, 1, Len(bytes) - 1)) * 256 + bytes[Len(bytes)]

\* nom's be_<ty>: the first Width(ty)/8 bytes as a big-endian number
be(ty, bytes) ==
    LET n == Width(ty) \div 8 IN
    IF Len(bytes) < n THEN Err("Incomplete")
    ELSE [tag |-> "Ok", value |-> Cast(BigEndian(SubSeq(bytes, 1, n)), ty)]

\* the position of the variant in the declaration taken for its value
DiscriminantOf_position(a, id) ==
    (CHOOSE i \in 1..Len(a.variants) : a.variants[i].ident = id) - 1

DiscriminantOf(a, id) ==
    Discriminant(a.variants, CHOOSE i \in 1..Len(a.variants) : a.variants[i].ident = id)

\* the body of map_opt!: the `if selector == Name::Id as ty { return Some(..) }`
\* statements in order, then None
RECURSIVE variants_match(_, _, _, _)
variants_match(arms, a, ty, selector) ==
    IF arms = <<>> THEN None
    ELSE IF selector = Cast(DiscriminantOf(a, Head(arms).variant), ty)
         THEN Some(Head(arms).variant)
         ELSE variants_match(Tail(arms), a, ty, selector)

\* an unmatched value falling back to the first variant
fieldless_parse_fallback(t, a, bytes) ==
    LET selector == be(t.ty, bytes) IN
    IF selector.tag = "Err" THEN selector
    ELSE LET r == variants_match(t.arms, a, t.ty, selector.value) IN
         IF r.tag = "Some" THEN Ok(r.val)
         ELSE IF t.arms = <<>> THEN Err("MapOpt") ELSE Ok(t.arms[1].variant)

\* parse(i) of a fieldless enum
fieldless_parse(t, a, bytes) ==
    LET selector == be(t.ty, bytes) IN
    IF selector.tag = "Err" THEN selector
    ELSE LET r == variants_match(t.arms, a, t.ty, selector.value) IN
         IF r.tag = "Some" THEN Ok(r.val) ELSE Err("MapOpt")

Literal(v) == <<"0", "1", "2", "3", "4", "5">>[v + 1]

PatternMatches(pattern, v) == pattern = "_" \/ pattern = Literal(v)

\* parse(i, selector) of an enum with a Selector: the first arm whose pattern
\* matches decides; the decoding of the arm's fields is not followed further
RECURSIVE match_selector(_, _, _)
match_selector(arms, has_default, v) ==
    IF arms = <<>>
    THEN IF has_default THEN Err("Switch") ELSE Err("NonExhaustive")
    ELSE IF PatternMatches(Head(arms).pattern, v)
         THEN Ok(Head(arms).variant)
         ELSE match_selector(Tail(arms), has_default, v)

selector_parse(t, v) == match_selector(t.arms, t.default_case, v)

(***************************************************************************)
(* State machine: one derive on a declaration, then a call of the          *)
(* generated parser on one input.                                          *)
(***************************************************************************)
Bytes == {0, 1, 2, 3, 255}

Inputs == UNION { [1..n -> Bytes] : n \in 0..MaxInputLen }

\* every declaration of at most MaxVariants variants that rustc accepts
Init ==
    /\ \E n \in 0..MaxVariants :
         \E a \in [1..n -> VariantAttrLists], s \in [1..n -> FieldShapes] :
           \E at \in EnumAttrLists :
             /\ ast = [data |-> "Enum", attrs |-> at,
                       variants |-> [i \in 1..n |-> Variant(i, a[i], s[i])]]
             /\ DistinctDiscriminants(ast.variants)
    /\ pc = "derive"
    /\ tokens = None
    /\ input = <<>>
    /\ output = None

\* #[derive(Nom)] on the declaration
nom ==
    /\ pc = "derive"
    /\ tokens' = impl_nom(ast)
    /\ pc' = IF tokens'.tag = "Tokens" THEN "derived" ELSE "panicked"
    /\ UNCHANGED <<ast, input, output>>

\* a call Name::parse(i, selector) of the generated selector parser
ParseSelector ==
    /\ pc = "derived"
    /\ tokens.mode = "selector"
    /\ \E v \in 0..MaxSelector :
         /\ input' = <<v>>
         /\ output' = selector_parse(tokens, v)
    /\ pc' = "parsed"
    /\ UNCHANGED <<ast, tokens>>

\* a call Name::parse(i) of the generated fieldless parser
ParseFieldless ==
    /\ pc = "derived"
    /\ tokens.mode = "fieldless"
    /\ \E bytes \in Inputs :
         /\ input' = bytes
         /\ output' = fieldless_parse(tokens, ast, bytes)
    /\ pc' = "parsed"
    /\ UNCHANGED <<ast, tokens>>

Next == nom \/ ParseSelector \/ ParseFieldless

Spec == Init /\ [][Next]_vars

(***************************************************************************)
(* The derive on every kind of declaration: the enums of Init, and the     *)
(* structs of at most MaxFields fields (and a union).  The field stage     *)
(* names positional fields _0, _1, ..; named fields keep their names.      *)
(***************************************************************************)
FieldNames == {"a", "b", "c", "d", "e"}
PositionalName(k) == <<"_0", "_1", "_2", "_3", "_4">>[k]
FieldParsers == {"be_u16", "be_u32"}

StructShapes ==
    UNION { { [fields |-> "Named",
               struct_def |-> [unnamed |-> FALSE,
                               parsers |-> [k \in 1..n |-> <<nm[k], ps[k]>>]]] :
                nm \in { f \in [1..n -> FieldNames] :
                            \A i, j \in 1..n : i # j => f[i] # f[j] },
                ps \in [1..n -> FieldParsers] }
            \cup
            { [fields |-> "Unnamed",
               struct_def |-> [unnamed |-> TRUE,
                               parsers |-> [k \in 1..n |-> <<PositionalName(k), ps[k]>>]]] :
                ps \in [1..n -> FieldParsers] } :
            n \in 0..MaxFields }
    \cup { [fields |-> "Unit", struct_def |-> [unnamed |-> FALSE, parsers |-> <<>>]] }

InitStruct ==
    /\ \/ \E sh \in StructShapes :
            ast = [data |-> "Struct", attrs |-> <<>>,
                   fields |-> sh.fields, struct_def |-> sh.struct_def]
       \/ ast = [data |-> "Union", attrs |-> <<>>]
    /\ pc = "derive"
    /\ tokens = None
    /\ input = <<>>
    /\ output = None

InitDeclarations == Init \/ InitStruct

SpecDeclarations == InitDeclarations /\ [][Next]_vars

(***************************************************************************)
(* Resolving attribute lists.  A list of at most MaxAttrs attributes sits  *)
(* either on an enum without variants, or on the one variant of an enum    *)
(* with #[Selector="u8"]; get_selector and get_repr are applied to it, and *)
(* the derive is run on the declaration.                                   *)
(***************************************************************************)
DirectiveAttrs(x, y) ==
    { SelectorNV(x),
      SelectorList(y),
      Attr("Selector", "NameValue", <<Item("Int", "1")>>),
      Attr("Selector", "List", <<>>),
      ReprAttr("u8"),
      ReprAttr("u16"),
      Attr("repr", "List", <<Item("Str", "u8")>>),
      Attr("derive", "List", <<Item("Word", "Debug")>>) }

AttrLists(universe) == UNION { [1..n -> universe] : n \in 0..MaxAttrs }

\* the list under study: the union's when there is no variant
ResolvedList(a) == IF a.variants = <<>> THEN a.attrs ELSE a.variants[1].attrs

InitDirectives ==
    /\ \/ \E l \in AttrLists(DirectiveAttrs("u8", "u16")) :
            ast = [data |-> "Enum", attrs |-> l, variants |-> <<>>]
       \/ \E l \in AttrLists(DirectiveAttrs("0", "1")) :
            ast = [data |-> "Enum", attrs |-> <<SelectorNV("u8")>>,
                   variants |-> <<Variant(1, l,
                       [fields |-> "Unnamed",
                        struct_def |-> [unnamed |-> TRUE,
                                        parsers |-> << <<"_0", "be_u32">> >>],
                        discriminant |-> <<>>])>>]
    /\ pc = "derive"
    /\ tokens = None
    /\ input = <<>>
    /\ output = None

\* get_selector(&ast.attrs) / get_selector(&variant.attrs) on its own
ResolveSelector ==
    /\ pc = "derive"
    /\ tokens' = get_selector(ResolvedList(ast))
    /\ pc' = "selector"
    /\ UNCHANGED <<ast, input, output>>

\* get_repr(&ast.attrs) on its own
ResolveRepr ==
    /\ pc = "derive"
    /\ tokens' = get_repr(ResolvedList(ast))
    /\ pc' = "repr"
    /\ UNCHANGED <<ast, input, output>>

NextDirectives == ResolveSelector \/ ResolveRepr \/ nom

SpecDirectives == InitDirectives /\ [][NextDirectives]_vars

(***************************************************************************)
(* Vocabulary of the properties, read off the declaration itself.          *)
(***************************************************************************)
CarriesSelector(attrs) == \E k \in 1..Len(attrs) : attrs[k].ident = "Selector"

\* the variant is declared with the selector `_`
IsWildcard(variant) ==
    \E k \in 1..Len(variant.attrs) :
        /\ variant.attrs[k].ident = "Selector"
        /\ variant.attrs[k].items = <<Item("Str", "_")>>

WildcardVariants(a) == { i \in 1..Len(a.variants) : IsWildcard(a.variants[i]) }

DeclaresRepr(attrs) == \E k \in 1..Len(attrs) : attrs[k].ident = "repr"

NoVariantDeclaresFields(a) ==
    \A i \in 1..Len(a.variants) : a.variants[i].fields = "Unit"

NoVariantCarriesSelector(a) ==
    \A i \in 1..Len(a.variants) : ~CarriesSelector(a.variants[i].attrs)

SelectorPlan == tokens.tag = "Tokens" /\ tokens.mode = "selector"
FieldlessPlan == tokens.tag = "Tokens" /\ tokens.mode = "fieldless"

ArmVariants == [i \in 1..Len(tokens.arms) |-> tokens.arms[i].variant]

Idents(variants) == [i \in 1..Len(variants) |-> variants[i].ident]

NotWildcard(variant) == ~IsWildcard(variant)

(***************************************************************************)
(* C1.  In selector mode, for a union with exactly one wildcard variant,   *)
(* the arms are the non-wildcard variants in declaration order followed by *)
(* the wildcard arm (`_`, `0`, `1` gives `0`, `1`, `_`).                   *)
(* The code swaps the wildcard with the last entry, so this fails.         *)
(***************************************************************************)
C1_StableRelocation ==
    (SelectorPlan /\ Cardinality(WildcardVariants(ast)) = 1) =>
        ArmVariants = Idents(SelectSeq(ast.variants, NotWildcard))
                        \o Idents(SelectSeq(ast.variants, IsWildcard))

(***************************************************************************)
(* C2.  In selector mode, when exactly one variant carries the selector    *)
(* `_`, its arm is the final arm of the plan wherever it was declared, no  *)
(* other arm is a wildcard, and the generated parser returns the wildcard  *)
(* variant only for a selector value no concrete pattern matches.          *)
(***************************************************************************)
C2_WildcardLast ==
    (SelectorPlan /\ Cardinality(WildcardVariants(ast)) = 1) =>
        LET w == CHOOSE i \in WildcardVariants(ast) : TRUE
            n == Len(tokens.arms)
        IN /\ n = Len(ast.variants)
           /\ tokens.arms[n].pattern = "_"
           /\ tokens.arms[n].variant = ast.variants[w].ident
           /\ \A i \in 1..(n - 1) : tokens.arms[i].pattern # "_"
           /\ (pc = "parsed" /\ output = Ok(ast.variants[w].ident)) =>
                  \A i \in 1..(n - 1) : tokens.arms[i].pattern # Literal(input[1])
           /\ (pc = "parsed" /\ \E i \in 1..(n - 1) :
                                    tokens.arms[i].pattern = Literal(input[1])) =>
                  output # Ok(ast.variants[w].ident)

\* the wildcard declared first of three variants, relocated, and chosen by a call
C2_Witness ==
    /\ SelectorPlan
    /\ Len(ast.variants) = 3
    /\ WildcardVariants(ast) = {1}
    /\ tokens.arms[3].variant = "A"
    /\ pc = "parsed"
    /\ output = Ok("A")

(***************************************************************************)
(* C3.  Every plan of impl_nom_enums has at most one wildcard arm, and no  *)
(* wildcard arm at a non-final position, also when two or more variants    *)
(* carry the selector `_`.  The code relocates the first wildcard only.    *)
(***************************************************************************)
C3_AtMostOneWildcardArm ==
    SelectorPlan =>
        /\ Cardinality({ i \in 1..Len(tokens.arms) : tokens.arms[i].pattern = "_" }) <= 1
        /\ \A i \in 1..(Len(tokens.arms) - 1) : tokens.arms[i].pattern # "_"

(***************************************************************************)
(* C4.  In selector mode the terminal no-match arm (ErrorKind::Switch) is  *)
(* emitted if and only if no variant carries the selector `_`; with it a   *)
(* selector value matching no variant pattern yields the Switch error, and *)
(* with a wildcard variant every call yields a variant.                    *)
(***************************************************************************)
C4_DefaultArm ==
    SelectorPlan =>
        /\ tokens.default_case <=> (WildcardVariants(ast) = {})
        /\ (pc = "parsed" /\ WildcardVariants(ast) = {}) =>
              IF \E i \in 1..Len(tokens.arms) : tokens.arms[i].pattern = Literal(input[1])
              THEN output.tag = "Ok"
              ELSE output = Err("Switch")
        /\ (pc = "parsed" /\ WildcardVariants(ast) # {}) => output.tag = "Ok"

\* a call with a selector value no variant declares, on a plan without wildcard
C4_Witness ==
    /\ SelectorPlan
    /\ Len(ast.variants) >= 2
    /\ WildcardVariants(ast) = {}
    /\ tokens.default_case
    /\ pc = "parsed"
    /\ output = Err("Switch")

(***************************************************************************)
(* C5.  Fieldless mode is entered only when no variant declares fields, no *)
(* variant carries a Selector directive and the union declares a           *)
(* representation width.  The code looks for a Selector on the union only: *)
(* a Selector on a variant of a fieldless union is ignored.                *)
(***************************************************************************)
C5_FieldlessEntry ==
    FieldlessPlan =>
        /\ NoVariantDeclaresFields(ast)
        /\ NoVariantCarriesSelector(ast)
        /\ DeclaresRepr(ast.attrs)

(***************************************************************************)
(* Enumerator numbering as the documentation states it: an explicit value  *)
(* restarts the count, every other variant is one more than the previous   *)
(* one, the first is 0.                                                    *)
(***************************************************************************)
Max(S) == CHOOSE x \in S : \A y \in S : y <= x

ExpectedValue(variants, i) ==
    LET explicit == { j \in 1..i : variants[j].discriminant # <<>> } IN
    IF explicit = {} THEN i - 1
    ELSE variants[Max(explicit)].discriminant[1] + (i - Max(explicit))

\* the number the input starts with, for the widths the declarations use
EnoughInput == Len(input) >= (IF tokens.ty = "u8" THEN 1 ELSE 2)
DecodedValue == IF tokens.ty = "u8" THEN input[1] ELSE input[1] * 256 + input[2]

(***************************************************************************)
(* C6.  A fieldless plan has exactly one arm per declared variant, in      *)
(* declaration order, with nothing but the variant in it (no wildcard, no  *)
(* field steps), and decoding a number equal to a variant's value under    *)
(* default-incrementing numbering returns that variant.                    *)
(***************************************************************************)
C6_FieldlessArms ==
    FieldlessPlan =>
        /\ ArmVariants = Idents(ast.variants)
        /\ \A i \in 1..Len(tokens.arms) : DOMAIN tokens.arms[i] = {"variant"}
        /\ "default_case" \notin DOMAIN tokens
        /\ (pc = "parsed" /\ EnoughInput) =>
              \A i \in 1..Len(ast.variants) :
                  DecodedValue = ExpectedValue(ast.variants, i) =>
                      output = Ok(ast.variants[i].ident)

\* the documented enum A, B = 2, C with repr(u8): the byte 3 decodes to C
C6_Witness ==
    /\ FieldlessPlan
    /\ tokens.ty = "u8"
    /\ Len(ast.variants) = 3
    /\ [i \in 1..3 |-> ast.variants[i].discriminant] = << <<>>, <<2>>, <<>> >>
    /\ pc = "parsed"
    /\ input = <<3>>
    /\ output = Ok("C")

(***************************************************************************)
(* C7.  In fieldless mode a decoded number that is no declared variant's   *)
(* value makes the decode fail: no variant is returned.                    *)
(***************************************************************************)
C7_UnmatchedFails ==
    (FieldlessPlan /\ pc = "parsed" /\ EnoughInput) =>
        ((\A i \in 1..Len(ast.variants) :
              DecodedValue # ExpectedValue(ast.variants, i))
            => output = Err("MapOpt"))

\* the documented enum A, B = 2, C with repr(u8): the byte 1 is an error
C7_Witness ==
    /\ FieldlessPlan
    /\ tokens.ty = "u8"
    /\ Len(ast.variants) = 3
    /\ [i \in 1..3 |-> ast.variants[i].discriminant] = << <<>>, <<2>>, <<>> >>
    /\ pc = "parsed"
    /\ input = <<1>>
    /\ output = Err("MapOpt")

(***************************************************************************)
(* C8.  For a union not eligible for fieldless mode, the derive fails with *)
(* a missing-selector error whenever some variant carries no Selector.     *)
(* As stated this covers the fieldless union without representation width, *)
(* which fails with the missing-repr error instead.                        *)
(***************************************************************************)
FieldlessEligible(a) ==
    /\ NoVariantDeclaresFields(a)
    /\ NoVariantCarriesSelector(a)
    /\ DeclaresRepr(a.attrs)

SomeVariantLacksSelector(a) ==
    \E i \in 1..Len(a.variants) : ~CarriesSelector(a.variants[i].attrs)

FirstLackingSelector(a) ==
    CHOOSE i \in 1..Len(a.variants) :
        /\ ~CarriesSelector(a.variants[i].attrs)
        /\ \A j \in 1..(i - 1) : CarriesSelector(a.variants[j].attrs)

C9_MissingReprOriginal ==
    (/\ pc # "derive"
     /\ NoVariantDeclaresFields(ast)
     /\ NoVariantCarriesSelector(ast)
     /\ ~DeclaresRepr(ast.attrs)) =>
        tokens = Panic(MissingRepr)

\* C9 as amended: the same, for a union that itself carries no Selector
C9_MissingRepr ==
    (/\ pc # "derive"
     /\ NoVariantDeclaresFields(ast)
     /\ NoVariantCarriesSelector(ast)
     /\ ~CarriesSelector(ast.attrs)
     /\ ~DeclaresRepr(ast.attrs)) =>
        tokens = Panic(MissingRepr)

\* two unit variants, no Selector anywhere, no repr
C9_Witness ==
    /\ pc = "panicked"
    /\ Len(ast.variants) = 2
    /\ NoVariantDeclaresFields(ast)
    /\ NoVariantCarriesSelector(ast)
    /\ ast.attrs = <<>>
    /\ tokens = Panic(MissingRepr)

(***************************************************************************)
(* C10.  The derive fails, producing no plan, for a union that mixes       *)
(* variants with and without fields, and for a union in which a variant    *)
(* carries a Selector while a representation width is declared.  The code  *)
(* has no such check: a Selector on the union selects selector mode        *)
(* whatever else is declared, and without it the variants' Selectors are   *)
(* not looked at.                                                          *)
(***************************************************************************)
MixesFieldedAndFieldless(a) ==
    /\ \E i \in 1..Len(a.variants) : a.variants[i].fields = "Unit"
    /\ \E i \in 1..Len(a.variants) : a.variants[i].fields # "Unit"

C10_AmbiguousModeRejected ==
    (/\ pc # "derive"
     /\ \/ MixesFieldedAndFieldless(ast)
        \/ (~NoVariantCarriesSelector(ast) /\ DeclaresRepr(ast.attrs))) =>
        tokens.tag = "Panic"

(***************************************************************************)
(* C11.  For every struct, and for every arm of a selector-mode enum, the  *)
(* decode steps are the field parsers of the field stage in the same       *)
(* order, the constructor lists the same bindings in that order, and the   *)
(* constructor is positional when the fields are unnamed, named otherwise. *)
(***************************************************************************)
StructPlan == tokens.tag = "Tokens" /\ tokens.mode = "struct"

DeclaredVariant(id) ==
    ast.variants[CHOOSE i \in 1..Len(ast.variants) : ast.variants[i].ident = id]

StepsFollow(code, handed) ==
    /\ Len(code.idents) = Len(handed.parsers)
    /\ Len(code.parser_tokens) = Len(handed.parsers)
    /\ \A k \in 1..Len(handed.parsers) :
          /\ code.idents[k] = handed.parsers[k][1]
          /\ code.parser_tokens[k] = handed.parsers[k][2]
    /\ code.struct_def.idents2 = code.idents
    /\ code.struct_def.form = IF handed.unnamed THEN "positional" ELSE "named"

C11_FieldOrder ==
    /\ StructPlan => StepsFollow(tokens, ast.struct_def)
    /\ SelectorPlan =>
          \A i \in 1..Len(tokens.arms) :
              StepsFollow(tokens.arms[i], DeclaredVariant(tokens.arms[i].variant).struct_def)

\* a struct declared with the named fields c, a, b in that order
C11_Witness ==
    /\ StructPlan
    /\ ast.fields = "Named"
    /\ tokens.idents = <<"c", "a", "b">>
    /\ tokens.parser_tokens = <<"be_u16", "be_u32", "be_u16">>
    /\ tokens.struct_def = [form |-> "named", idents2 |-> <<"c", "a", "b">>]

(***************************************************************************)
(* C12.  A list in which the same directive kind appears twice is refused  *)
(* with an error before any plan is built; none of the two values is       *)
(* silently used.  The code returns at the first Selector / repr it finds  *)
(* and never sees the second.                                              *)
(***************************************************************************)
Occurrences(attrs, kind) == { k \in 1..Len(attrs) : attrs[k].ident = kind }

HasDuplicate(attrs) ==
    \E kind \in {"Selector", "repr"} : Cardinality(Occurrences(attrs, kind)) >= 2

C12_DuplicateRejected ==
    /\ (pc = "selector" /\ Cardinality(Occurrences(ResolvedList(ast), "Selector")) >= 2)
          => tokens.tag = "Panic"
    /\ (pc = "repr" /\ Cardinality(Occurrences(ResolvedList(ast), "repr")) >= 2)
          => tokens.tag = "Panic"
    /\ (pc \in {"derived", "panicked"} /\ HasDuplicate(ResolvedList(ast)))
          => tokens.tag = "Panic"

(***************************************************************************)
(* C13.  The outcome of get_selector and of get_repr (value, absence or    *)
(* error) is the same for every permutation of the attribute list.  The    *)
(* code scans the list front to back and stops at the first match.         *)
(***************************************************************************)
Reorderings(l) ==
    { [i \in 1..Len(l) |-> l[p[i]]] :
        p \in { f \in [1..Len(l) -> 1..Len(l)] :
                  \A i, j \in 1..Len(l) : i # j => f[i] # f[j] } }

C13_OrderIndependent ==
    /\ pc = "selector" =>
          \A l \in Reorderings(ResolvedList(ast)) : get_selector(l) = tokens
    /\ pc = "repr" =>
          \A l \in Reorderings(ResolvedList(ast)) : get_repr(l) = tokens

(***************************************************************************)
(* C14.  In selector mode the relocation of the default case permutes the  *)
(* variant list and the arm list alike: the plan has exactly one arm per   *)
(* declared variant, arm i belongs to entry i of the variant list, and the *)
(* relocation never fails: the index of the default case is found and is   *)
(* in range, so every enum with a Selector whose variants all parse gets   *)
(* a plan.                                                                 *)
(***************************************************************************)
AllVariantsParse(a) ==
    \A i \in 1..Len(a.variants) :
        /\ a.variants[i].fields # "Unit"
        /\ CarriesSelector(a.variants[i].attrs)

C14_RelocationPermutes ==
    /\ SelectorPlan =>
          /\ Len(tokens.arms) = Len(ast.variants)
          /\ Len(tokens.variants_defs) = Len(ast.variants)
          /\ \A v \in 1..Len(ast.variants) :
                Cardinality({ i \in 1..Len(tokens.arms) :
                                tokens.arms[i].variant = ast.variants[v].ident }) = 1
          /\ \A i \in 1..Len(tokens.arms) :
                /\ tokens.arms[i].variant = tokens.variants_defs[i].ident
                /\ tokens.arms[i].pattern = tokens.variants_defs[i].selector
          /\ ~tokens.default_case => Len(ast.variants) >= 1
    /\ (pc # "derive" /\ tokens.tag = "Panic") =>
          tokens.msg \notin {DefaultCaseIndexNotFound, IndexOutOfRange}
    /\ (pc # "derive" /\ CarriesSelector(ast.attrs) /\ AllVariantsParse(ast)) =>
          SelectorPlan

\* the wildcard declared first of three: A and C have changed places
C14_Witness ==
    /\ SelectorPlan
    /\ Len(ast.variants) = 3
    /\ WildcardVariants(ast) = {1}
    /\ ArmVariants = <<"C", "B", "A">>
    /\ Idents(tokens.variants_defs) = <<"C", "B", "A">>

====
